---- MODULE Spec2Model ----
(***************************************************************************)
(* Model of araxis_syntax_tool/cli.py: the flat Araxis blob, the Language  *)
(* records, and the pack / merge / unpack commands.                        *)
(*                                                                         *)
(* Every Python string the code takes apart (patterns, uuids, names) is a  *)
(* sequence of one-character strings; every blob value is a sequence of    *)
(* strings, the empty string being <<>>.  A flat key is the pair           *)
(* <<prefix, rest>>: no Araxis prefix is a prefix of another one, so       *)
(* prefix + rest determines both parts.  A Python dict is a sequence of    *)
(* [k, v] entries with distinct keys, in insertion order.                  *)
(***************************************************************************)
EXTENDS Integers, Sequences, FiniteSets, TLC

VARIABLES indir, dest, outdir, pc, run, pattern

vars == <<indir, dest, outdir, pc, run, pattern>>

(* ---------------- Araxis key prefixes (cli.py 18-28) ------------------- *)
K_FILE_PATTERNS == "file.patterns."
K_DESC == "genericlanguage.description."
K_KW1 == "keywords.*."
K_KW2 == "keywords2.*."
K_OPS == "keywords3.*."
K_SL == "keywords4.*."
K_ML_START == "keywords5.*."
K_ML_END == "keywords6.*."
K_CASE == "keywords7.*."
K_KW3 == "keywords8.*."
K_LEXER == "lexer.*."

(* the nine suffix-keyed prefixes, in the order remove_lang walks them *)
ContentPrefixes ==
  <<K_KW1, K_KW2, K_KW3, K_OPS, K_SL, K_ML_START, K_ML_END, K_CASE, K_LEXER>>

(* ---------------- Python string and dict primitives -------------------- *)
Range(s) == {s[i] : i \in 1..Len(s)}

(* str.startswith *)
StartsWith(s, pre) ==
  /\ Len(s) >= Len(pre)
  /\ SubSeq(s, 1, Len(pre)) = pre

(* s[n:] *)
DropFirst(s, n) == SubSeq(s, n + 1, Len(s))

(* s[:n] *)
Take(s, n) == SubSeq(s, 1, IF Len(s) < n THEN Len(s) ELSE n)

RECURSIVE SplitFrom(_, _, _, _)
SplitFrom(s, sep, i, cur) ==
  IF i > Len(s) THEN <<cur>>
  ELSE IF s[i] = sep THEN <<cur>> \o SplitFrom(s, sep, i + 1, <<>>)
  ELSE SplitFrom(s, sep, i + 1, Append(cur, s[i]))

(* str.split(sep): always at least one segment *)
Split(s, sep) == SplitFrom(s, sep, 1, <<>>)

RECURSIVE Join(_, _)
(* sep.join(parts) *)
Join(parts, sep) ==
  IF Len(parts) = 0 THEN <<>>
  ELSE IF Len(parts) = 1 THEN parts[1]
  ELSE parts[1] \o <<sep>> \o Join(Tail(parts), sep)

(* k in d *)
DictHas(d, k) == \E i \in 1..Len(d) : d[i].k = k

(* d.get(k, dflt) *)
DictGet(d, k, dflt) ==
  IF DictHas(d, k) THEN d[CHOOSE i \in 1..Len(d) : d[i].k = k].v ELSE dflt

(* d[k] = v: an existing key keeps its position *)
DictSet(d, k, v) ==
  IF DictHas(d, k)
  THEN [d EXCEPT ![CHOOSE i \in 1..Len(d) : d[i].k = k] = [k |-> k, v |-> v]]
  ELSE Append(d, [k |-> k, v |-> v])

(* d.pop(k, None) *)
DictPop(d, k) == SelectSeq(d, LAMBDA e : e.k # k)

(* the mapping a dict denotes, order forgotten *)
DictItems(d) == Range(d)

(* ---------------- Key Suffix Deriver (cli.py 40-48) -------------------- *)
(* the deriver with the "*." branch missing: only a leading "*" is dropped *)
SuffixDropsOneOnly(filename_pattern) ==
  LET parts == Split(filename_pattern, ";")
      p0 == parts[1]
      parts2 == IF StartsWith(p0, <<"*">>)
                THEN [parts EXCEPT ![1] = DropFirst(p0, 1)]
                ELSE parts
  IN Join(parts2, ";")

pattern_to_key_suffix(filename_pattern) ==
  LET parts == Split(filename_pattern, ";")
      p0 == parts[1]
      parts2 == IF StartsWith(p0, <<"*", ".">>)
                THEN [parts EXCEPT ![1] = DropFirst(p0, 2)]
                ELSE IF StartsWith(p0, <<"*">>)
                THEN [parts EXCEPT ![1] = DropFirst(p0, 1)]
                ELSE parts
  IN Join(parts2, ";")

(* ---------------- Language record model (cli.py 158-207) --------------- *)
(* str.lower() on the case tokens the blob can hold *)
Lower(tok) ==
  IF tok \in {"TRUE", "True"} THEN "true"
  ELSE IF tok \in {"FALSE", "False"} THEN "false"
  ELSE tok

FlatKey(prefix, rest) == <<prefix, rest>>

(* Language.from_flat *)
from_flat(uuid, file_patterns, flat) ==
  LET suffix == pattern_to_key_suffix(file_patterns)
      get(k_prefix) == DictGet(flat, FlatKey(k_prefix, suffix), <<>>)
      case_raw == get(K_CASE)
      val == IF Len(case_raw) > 0 THEN Lower(case_raw[1]) ELSE ""
      lex == get(K_LEXER)
  IN [uuid |-> uuid,
      name |-> DictGet(flat, FlatKey(K_DESC, uuid), <<>>),
      filenamePattern |-> file_patterns,
      keywordsClass1 |-> get(K_KW1),
      keywordsClass2 |-> get(K_KW2),
      keywordsClass3 |-> get(K_KW3),
      operatorSymbols |-> get(K_OPS),
      singleLineCommentSymbols |-> get(K_SL),
      multiLineCommentStartSymbols |-> get(K_ML_START),
      multiLineCommentEndSymbols |-> get(K_ML_END),
      isCaseSensitive |-> IF val \in {"true", "false"} THEN val ELSE "false",
      backslashIsAStringEscape |-> ~("no_backslash_escape" \in Range(case_raw)),
      lexer |-> IF lex = <<>> THEN <<"generic">> ELSE lex]

RECURSIVE ParseFrom(_, _, _, _)
ParseFrom(flat, i, uuid_to_lang, pattern_to_uuid) ==
  IF i > Len(flat) THEN [uuid_to_lang |-> uuid_to_lang,
                         pattern_to_uuid |-> pattern_to_uuid]
  ELSE IF flat[i].k[1] = K_FILE_PATTERNS
  THEN LET uuid == flat[i].k[2]
           lang == from_flat(uuid, flat[i].v, flat)
       IN ParseFrom(flat, i + 1,
                    DictSet(uuid_to_lang, uuid, lang),
                    IF lang.filenamePattern # <<>>
                    THEN DictSet(pattern_to_uuid, lang.filenamePattern, uuid)
                    ELSE pattern_to_uuid)
  ELSE ParseFrom(flat, i + 1, uuid_to_lang, pattern_to_uuid)

(* parse_languages_from_flat: the uuid -> Language dict and the            *)
(* pattern -> uuid index, both in blob order                               *)
parse_languages_from_flat(flat) == ParseFrom(flat, 1, <<>>, <<>>)

(* the eleven writes build_flat_from_languages makes for one record *)
FlatPutLanguage(flat, L) ==
  LET suffix == pattern_to_key_suffix(L.filenamePattern)
      case_val == IF L.isCaseSensitive # "" THEN Lower(L.isCaseSensitive)
                  ELSE "false"
      f1 == DictSet(flat, FlatKey(K_FILE_PATTERNS, L.uuid), L.filenamePattern)
      f2 == DictSet(f1, FlatKey(K_DESC, L.uuid), L.name)
      f3 == DictSet(f2, FlatKey(K_KW1, suffix), L.keywordsClass1)
      f4 == DictSet(f3, FlatKey(K_KW2, suffix), L.keywordsClass2)
      f5 == DictSet(f4, FlatKey(K_KW3, suffix), L.keywordsClass3)
      f6 == DictSet(f5, FlatKey(K_OPS, suffix), L.operatorSymbols)
      f7 == DictSet(f6, FlatKey(K_SL, suffix), L.singleLineCommentSymbols)
      f8 == DictSet(f7, FlatKey(K_ML_START, suffix), L.multiLineCommentStartSymbols)
      f9 == DictSet(f8, FlatKey(K_ML_END, suffix), L.multiLineCommentEndSymbols)
      f10 == DictSet(f9, FlatKey(K_CASE, suffix),
                     IF L.backslashIsAStringEscape = FALSE
                     THEN <<case_val, "no_backslash_escape">>
                     ELSE <<case_val>>)
  IN DictSet(f10, FlatKey(K_LEXER, suffix),
             IF L.lexer = <<>> THEN <<"generic">> ELSE L.lexer)

RECURSIVE BuildFrom(_, _, _)
BuildFrom(langs, i, flat) ==
  IF i > Len(langs) THEN flat
  ELSE BuildFrom(langs, i + 1, FlatPutLanguage(flat, langs[i]))

(* build_flat_from_languages *)
build_flat_from_languages(langs) == BuildFrom(langs, 1, <<>>)

RECURSIVE DictValues(_)
(* list(d.values()) *)
DictValues(d) ==
  IF Len(d) = 0 THEN <<>> ELSE <<d[1].v>> \o DictValues(Tail(d))

(* ---------------- Bounds and the inputs the commands are run on -------- *)
(* most per-language files in the input directory *)
MaxFiles == 2

(* most records in a blob handed to unpack *)
MaxBlobLangs == 3

(* longest pattern handed to the suffix deriver *)
MaxPatternLen == 3

UuidEmpty == <<>>
UuidAB == <<"a", "b">>
UuidADashB == <<"a", "-", "b">>
Uuids == {UuidEmpty, UuidAB, UuidADashB}

PatStarDotC == <<"*", ".", "c">>
PatStarC == <<"*", "c">>
PatStarDotH == <<"*", ".", "h">>
Patterns == {PatStarDotC, PatStarC, PatStarDotH}

(* A record as load_languages_from_dir (cli.py 273-305) returns it:        *)
(* isCaseSensitive lower-cased and in {"true","false"}, filenamePattern    *)
(* and lexer non-empty, backslashIsAStringEscape a boolean.                *)
LoadedLang(u, p) ==
  [uuid |-> u,
   name |-> IF u = UuidADashB THEN <<"x", "/">> ELSE <<"x">>,
   filenamePattern |-> p,
   keywordsClass1 |-> <<"if">> \o u,
   keywordsClass2 |-> <<"int">>,
   keywordsClass3 |-> <<"nil">> \o p,
   operatorSymbols |-> <<"+">>,
   singleLineCommentSymbols |-> <<"#">>,
   multiLineCommentStartSymbols |-> <<"/*">>,
   multiLineCommentEndSymbols |-> <<"*/">>,
   isCaseSensitive |-> IF p = PatStarDotH THEN "true" ELSE "false",
   backslashIsAStringEscape |-> (u # UuidAB),
   lexer |-> IF u = UuidEmpty THEN <<"cpp">> ELSE <<"generic">>]

InputLangs ==
  {LoadedLang(u, p) : u \in {UuidAB, UuidADashB}, p \in Patterns}
    \cup {LoadedLang(UuidEmpty, PatStarDotC)}

(* ---------------- State ------------------------------------------------ *)
(* indir   : the records of the input directory, in file-name order        *)
(* dest    : the destination blob; exists = FALSE when the file is missing *)
(* outdir  : unpack's output directory, file name -> record written        *)
(* pc      : where the running command is                                  *)
(* run     : the locals and the outcome of the running command             *)
(* pattern : the suffix deriver's argument and result                      *)
Missing == [exists |-> FALSE, flat |-> <<>>]

NoRun ==
  [cmd |-> "none", status |-> "none", err |-> <<>>, before |-> Missing,
   langs |-> <<>>, target_flat |-> <<>>, uuid_to_lang |-> <<>>,
   pattern_to_uuid |-> <<>>, i |-> 0, used |-> {}, empty_out |-> FALSE,
   count |-> 0]

NoProbe == [input |-> <<>>, called |-> FALSE, output |-> <<>>]

(* ---------------- Blob text I/O (cli.py 218-237) ------------------------ *)
(* The stored text is json.dumps of the str -> str mapping, behind the     *)
(* "json: " header or not; json.loads from the first "{" gives back the    *)
(* same keys and values in the same order, and every value is already a    *)
(* string, so the file is kept as the mapping it decodes to.               *)
dump_araxis_json(flat) == [exists |-> TRUE, flat |-> flat]

load_json_with_optional_header(d) == d.flat

(* ---------------- Editing the input directory -------------------------- *)
InsertAt(s, pos, e) == SubSeq(s, 1, pos - 1) \o <<e>> \o SubSeq(s, pos, Len(s))

RemoveAt(s, pos) == SubSeq(s, 1, pos - 1) \o SubSeq(s, pos + 1, Len(s))

(* a per-language file appears; its name decides where it sorts *)
WriteInputFile ==
  /\ pc = "idle"
  /\ Len(indir) < MaxFiles
  /\ \E L \in InputLangs, pos \in 1..(Len(indir) + 1) :
       indir' = InsertAt(indir, pos, L)
  /\ UNCHANGED <<dest, outdir, pc, run, pattern>>

RemoveInputFile ==
  /\ pc = "idle"
  /\ \E pos \in 1..Len(indir) : indir' = RemoveAt(indir, pos)
  /\ UNCHANGED <<dest, outdir, pc, run, pattern>>

(* ---------------- cmd_pack (cli.py 326-337) ---------------------------- *)
RECURSIVE PackCheckSeenByUuid(_, _, _)
(* the seen loop with the index keyed by uuid instead of by pattern *)
PackCheckSeenByUuid(langs, i, seen) ==
  IF i > Len(langs) THEN <<>>
  ELSE LET L == langs[i]
       IN IF /\ DictHas(seen, L.uuid)
             /\ DictGet(seen, L.uuid, <<>>) # L.uuid
          THEN <<DictGet(seen, L.uuid, <<>>), L.uuid, L.filenamePattern>>
          ELSE PackCheckSeenByUuid(langs, i + 1, DictSet(seen, L.uuid, L.uuid))

RECURSIVE PackCheck(_, _, _)
(* the seen loop: <<>> when no conflict is raised, else the two uuids and  *)
(* the pattern of the SystemExit message                                   *)
PackCheck(langs, i, seen) ==
  IF i > Len(langs) THEN <<>>
  ELSE LET L == langs[i]
       IN IF /\ DictHas(seen, L.filenamePattern)
             /\ DictGet(seen, L.filenamePattern, <<>>) # L.uuid
          THEN <<DictGet(seen, L.filenamePattern, <<>>), L.uuid, L.filenamePattern>>
          ELSE PackCheck(langs, i + 1, DictSet(seen, L.filenamePattern, L.uuid))

Pack ==
  /\ pc = "idle"
  /\ LET conflict == PackCheck(indir, 1, <<>>)
     IN IF conflict # <<>>
        THEN /\ run' = [NoRun EXCEPT !.cmd = "pack", !.status = "conflict",
                                     !.err = conflict, !.before = dest,
                                     !.langs = indir]
             /\ dest' = dest
        ELSE /\ run' = [NoRun EXCEPT !.cmd = "pack", !.status = "ok",
                                     !.before = dest, !.langs = indir]
             /\ dest' = dump_araxis_json(build_flat_from_languages(indir))
  /\ pc' = "done"
  /\ UNCHANGED <<indir, outdir, pattern>>

(* ---------------- cmd_merge (cli.py 339-374) --------------------------- *)
RECURSIVE PopContent(_, _, _)
PopContent(flat, suffix, n) ==
  IF n > Len(ContentPrefixes) THEN flat
  ELSE PopContent(DictPop(flat, FlatKey(ContentPrefixes[n], suffix)), suffix, n + 1)

(* the nested remove_lang, on the loaded target mapping *)
remove_lang(target_flat, uuid) ==
  LET fp_old == DictGet(target_flat, FlatKey(K_FILE_PATTERNS, uuid), <<>>)
      t1 == DictPop(DictPop(target_flat, FlatKey(K_FILE_PATTERNS, uuid)),
                    FlatKey(K_DESC, uuid))
  IN IF fp_old # <<>>
     THEN PopContent(t1, pattern_to_key_suffix(fp_old), 1)
     ELSE t1

(* lines 340-346: load the target (a missing one is the empty mapping),    *)
(* derive its records and the pattern index, load the incoming records     *)
MergeStart ==
  /\ pc = "idle"
  /\ LET target_flat == IF dest.exists
                        THEN load_json_with_optional_header(dest)
                        ELSE <<>>
         parsed == parse_languages_from_flat(target_flat)
     IN run' = [NoRun EXCEPT !.cmd = "merge", !.before = dest,
                             !.langs = indir, !.target_flat = target_flat,
                             !.uuid_to_lang = parsed.uuid_to_lang,
                             !.pattern_to_uuid = parsed.pattern_to_uuid,
                             !.i = 1]
  /\ pc' = "merge_loop"
  /\ UNCHANGED <<indir, dest, outdir, pattern>>

(* the conflict test of line 360; a Python string is true when non-empty *)
MergeConflict(uuid_to_lang, pattern_to_uuid, L) ==
  LET uuid_exists == DictHas(uuid_to_lang, L.uuid)
      has_entry == DictHas(pattern_to_uuid, L.filenamePattern)
      conflict_uuid == DictGet(pattern_to_uuid, L.filenamePattern, <<>>)
  IN /\ ~uuid_exists
     /\ has_entry
     /\ conflict_uuid # <<>>
     /\ conflict_uuid # L.uuid

(* one turn of the loop of lines 357-370 *)
MergeStep ==
  /\ pc = "merge_loop"
  /\ run.i <= Len(run.langs)
  /\ LET L == run.langs[run.i]
         uuid_exists == DictHas(run.uuid_to_lang, L.uuid)
     IN IF MergeConflict(run.uuid_to_lang, run.pattern_to_uuid, L)
        THEN /\ run' = [run EXCEPT
                          !.status = "conflict",
                          !.err = <<L.uuid,
                                    DictGet(run.pattern_to_uuid, L.filenamePattern, <<>>),
                                    L.filenamePattern>>]
             /\ pc' = "done"
        ELSE /\ run' = [run EXCEPT
                          !.target_flat = IF uuid_exists
                                          THEN remove_lang(run.target_flat, L.uuid)
                                          ELSE run.target_flat,
                          !.uuid_to_lang = DictSet(run.uuid_to_lang, L.uuid, L),
                          !.pattern_to_uuid =
                              DictSet(run.pattern_to_uuid, L.filenamePattern, L.uuid),
                          !.i = run.i + 1]
             /\ pc' = "merge_loop"
  /\ UNCHANGED <<indir, dest, outdir, pattern>>

(* lines 372-374: rebuild the blob from the record set and write it *)
MergeFinish ==
  /\ pc = "merge_loop"
  /\ run.i > Len(run.langs)
  /\ dest' = dump_araxis_json(
                build_flat_from_languages(DictValues(run.uuid_to_lang)))
  /\ run' = [run EXCEPT !.status = "ok", !.count = Len(run.langs)]
  /\ pc' = "done"
  /\ UNCHANGED <<indir, outdir, pattern>>

(* the process ends; its locals are gone *)
Exit ==
  /\ pc = "done"
  /\ pc' = "idle"
  /\ run' = NoRun
  /\ UNCHANGED <<indir, dest, outdir, pattern>>

Init ==
  /\ indir = <<>>
  /\ dest = Missing
  /\ outdir = <<>>
  /\ pc = "idle"
  /\ run = NoRun
  /\ pattern = NoProbe

Next ==
  \/ WriteInputFile
  \/ RemoveInputFile
  \/ Pack
  \/ MergeStart
  \/ MergeStep
  \/ MergeFinish
  \/ Exit

Spec == Init /\ [][Next]_vars

(* ---------------- cmd_unpack (cli.py 307-324) -------------------------- *)
(* pathvalidate.sanitize_filename: characters a file name cannot hold go *)
InvalidFileChars == {"/", "*", ";"}

sanitize_filename(name) == SelectSeq(name, LAMBDA c : c \notin InvalidFileChars)

(* re.sub(r"[^A-Za-z0-9]+", "", uuid) *)
AlnumChars == {"a", "b", "c", "h", "x"}

AlnumOnly(uuid) == SelectSeq(uuid, LAMBDA c : c \in AlnumChars)

(* characters of the uuid kept in a disambiguated file name (line 318) *)
UuidSuffixLen == 8

Exists(dir, fname) == DictHas(dir, fname)

(* the file name line 315-319 picks for one record *)
UnpackFileName(lang, used, dir) ==
  LET clean == sanitize_filename(lang.name)
      base == IF clean = <<>> THEN <<"unnamed">> ELSE clean
      fname == base \o <<".json">>
  IN IF fname \in used \/ Exists(dir, fname)
     THEN base \o <<"-">> \o Take(AlnumOnly(lang.uuid), UuidSuffixLen) \o <<".json">>
     ELSE fname

(* lines 308-313: read the blob, extract the records *)
UnpackStart ==
  /\ pc = "idle"
  /\ dest.exists
  /\ run' = [NoRun EXCEPT !.cmd = "unpack", !.before = dest,
                          !.uuid_to_lang =
                              parse_languages_from_flat(
                                load_json_with_optional_header(dest)).uuid_to_lang,
                          !.i = 1, !.empty_out = (outdir = <<>>)]
  /\ pc' = "unpack_loop"
  /\ UNCHANGED <<indir, dest, outdir, pattern>>

(* one turn of the loop of lines 314-323 *)
UnpackStep ==
  /\ pc = "unpack_loop"
  /\ run.i <= Len(run.uuid_to_lang)
  /\ LET lang == run.uuid_to_lang[run.i].v
         fname == UnpackFileName(lang, run.used, outdir)
     IN /\ outdir' = DictSet(outdir, fname, lang)
        /\ run' = [run EXCEPT !.used = run.used \cup {fname}, !.i = run.i + 1]
  /\ pc' = "unpack_loop"
  /\ UNCHANGED <<indir, dest, pattern>>

(* line 324: report the count *)
UnpackFinish ==
  /\ pc = "unpack_loop"
  /\ run.i > Len(run.uuid_to_lang)
  /\ run' = [run EXCEPT !.status = "ok", !.count = Len(run.uuid_to_lang)]
  /\ pc' = "done"
  /\ UNCHANGED <<indir, dest, outdir, pattern>>

RECURSIVE ListsUpTo(_, _)
(* all lists of at most n elements of S *)
ListsUpTo(S, n) ==
  IF n = 0 THEN {<<>>}
  ELSE LET shorter == ListsUpTo(S, n - 1)
       IN shorter \cup {Append(l, e) : l \in shorter, e \in S}

(* records of the blobs unpack is run on *)
BlobLangs == {LoadedLang(u, p) : u \in Uuids, p \in {PatStarDotC, PatStarDotH}}

InitUnpack ==
  /\ indir = <<>>
  /\ \E langs \in ListsUpTo(BlobLangs, MaxBlobLangs) :
       dest = dump_araxis_json(build_flat_from_languages(langs))
  /\ outdir = <<>>
  /\ pc = "idle"
  /\ run = NoRun
  /\ pattern = NoProbe

NextUnpack ==
  \/ UnpackStart
  \/ UnpackStep
  \/ UnpackFinish
  \/ Exit

SpecUnpack == InitUnpack /\ [][NextUnpack]_vars

(* ---------------- the suffix deriver on its own ------------------------ *)
PatternChars == {"*", ".", ";", "c"}

ExamplePatterns ==
  {<<"*", ".", "c", "p", "p">>, <<"*", "c", "p", "p">>, <<"c", "p", "p">>,
   <<"*", ".", "h", ";", "*", ".", "h", "p", "p">>}

PatternInputs == ListsUpTo(PatternChars, MaxPatternLen) \cup ExamplePatterns

InitSuffix ==
  /\ indir = <<>>
  /\ dest = Missing
  /\ outdir = <<>>
  /\ pc = "idle"
  /\ run = NoRun
  /\ \E p \in PatternInputs : pattern = [NoProbe EXCEPT !.input = p]

DeriveSuffix ==
  /\ ~pattern.called
  /\ pattern' = [pattern EXCEPT !.called = TRUE,
                                !.output = pattern_to_key_suffix(pattern.input)]
  /\ UNCHANGED <<indir, dest, outdir, pc, run>>

NextSuffix == DeriveSuffix

SpecSuffix == InitSuffix /\ [][NextSuffix]_vars

(* ======================================================================= *)
(* Properties                                                              *)
(* ======================================================================= *)
UuidsOf(langs) == {langs[i].uuid : i \in 1..Len(langs)}

DistinctUuids(langs) ==
  \A i, j \in 1..Len(langs) : i # j => langs[i].uuid # langs[j].uuid

DistinctPatterns(langs) ==
  \A i, j \in 1..Len(langs) :
    i # j => langs[i].filenamePattern # langs[j].filenamePattern

(* the records a blob holds, as unpack extracts them *)
RecordsOf(flat) == DictValues(parse_languages_from_flat(flat).uuid_to_lang)

(* the flat mapping of a destination; a missing file holds no record *)
FlatOf(d) == IF d.exists THEN d.flat ELSE <<>>

PackDone == pc = "done" /\ run.cmd = "pack"

MergeDone == pc = "done" /\ run.cmd = "merge"

(* two records of the directory with different uuids and one pattern *)
SharedPattern(langs) ==
  \E i, j \in 1..Len(langs) :
    /\ langs[i].uuid # langs[j].uuid
    /\ langs[i].filenamePattern = langs[j].filenamePattern

(* C9: for every pattern, the derived suffix has the same ';' segments as  *)
(* the pattern except that the first one has lost a leading "*." or else a *)
(* leading "*"; the empty pattern gives the empty suffix; "*.cpp", "*cpp"  *)
(* and "cpp" give "cpp", and "*.h;*.hpp" gives "h;*.hpp".                  *)
C9_SuffixDerivation ==
  pattern.called =>
    LET segsIn == Split(pattern.input, ";")
        segsOut == Split(pattern.output, ";")
    IN /\ Len(segsOut) = Len(segsIn)
       /\ \A n \in 2..Len(segsIn) : segsOut[n] = segsIn[n]
       /\ IF Len(segsIn[1]) >= 2 /\ segsIn[1][1] = "*" /\ segsIn[1][2] = "."
          THEN segsIn[1] = <<"*", ".">> \o segsOut[1]
          ELSE IF Len(segsIn[1]) >= 1 /\ segsIn[1][1] = "*"
          THEN segsIn[1] = <<"*">> \o segsOut[1]
          ELSE segsOut[1] = segsIn[1]
       /\ (pattern.input = <<>> => pattern.output = <<>>)
       /\ (pattern.input \in {<<"*", ".", "c", "p", "p">>, <<"*", "c", "p", "p">>,
                              <<"c", "p", "p">>}
             => pattern.output = <<"c", "p", "p">>)
       /\ (pattern.input = <<"*", ".", "h", ";", "*", ".", "h", "p", "p">>
             => pattern.output = <<"h", ";", "*", ".", "h", "p", "p">>)

(* C9 witness: the deriver has run on "*.h;*.hpp" *)
C9_Witness ==
  /\ pattern.called
  /\ pattern.input = <<"*", ".", "h", ";", "*", ".", "h", "p", "p">>
  /\ pattern.output = <<"h", ";", "*", ".", "h", "p", "p">>

(* C7: when the input directory holds two records with different uuids    *)
(* and the same filenamePattern, pack ends in a conflict error that names  *)
(* two different uuids of the directory that both carry the named          *)
(* pattern, and the destination is what it was before the command.         *)
C7_PackConflict ==
  (PackDone /\ SharedPattern(run.langs)) =>
    /\ run.status = "conflict"
    /\ dest = run.before
    /\ Len(run.err) = 3
    /\ run.err[1] # run.err[2]
    /\ \A n \in 1..2 :
         \E i \in 1..Len(run.langs) :
           /\ run.langs[i].uuid = run.err[n]
           /\ run.langs[i].filenamePattern = run.err[3]

(* C7 witness: pack has failed on such a directory over an existing blob *)
C7_Witness ==
  /\ PackDone
  /\ SharedPattern(run.langs)
  /\ run.status = "conflict"
  /\ run.before.exists

(* C1: after a successful pack of records with pairwise distinct uuids and *)
(* pairwise distinct filenamePatterns, the records extracted from the      *)
(* written blob are exactly the packed records, field for field.           *)
C1_RoundTrip ==
  (PackDone /\ run.status = "ok"
     /\ DistinctUuids(run.langs) /\ DistinctPatterns(run.langs)) =>
    Range(RecordsOf(dest.flat)) = Range(run.langs)

(* two records with different uuids whose patterns derive one suffix *)
SuffixClash(A, B) ==
  /\ A.uuid # B.uuid
  /\ pattern_to_key_suffix(A.filenamePattern) = pattern_to_key_suffix(B.filenamePattern)

(* C2: pack fails with a conflict when two records of the directory have   *)
(* different uuids and one derived suffix; merge fails with a conflict     *)
(* when an incoming record and a record of the target that the merge does  *)
(* not itself replace have different uuids and one derived suffix.         *)
C2_SuffixCollisionIsConflict ==
  /\ (PackDone /\ \E i, j \in 1..Len(run.langs) :
                     SuffixClash(run.langs[i], run.langs[j]))
       => run.status = "conflict"
  /\ (MergeDone /\ \E i \in 1..Len(run.langs) :
                      \E T \in Range(RecordsOf(FlatOf(run.before))) :
                        /\ T.uuid \notin UuidsOf(run.langs)
                        /\ SuffixClash(run.langs[i], T))
       => run.status = "conflict"

(* C3: after a successful merge into a target whose records have pairwise  *)
(* distinct filenamePatterns, every target record whose uuid is not among  *)
(* the incoming uuids is extracted from the output blob unchanged.         *)
C3_MergePreservesUnrelated ==
  (MergeDone /\ run.status = "ok"
     /\ DistinctPatterns(RecordsOf(FlatOf(run.before)))) =>
    \A T \in Range(RecordsOf(FlatOf(run.before))) :
      T.uuid \notin UuidsOf(run.langs) => T \in Range(RecordsOf(dest.flat))

(* every record of the blob has a non-empty pattern that no record with    *)
(* another uuid has                                                        *)
BlobInvariant(flat) ==
  LET recs == RecordsOf(flat)
  IN /\ \A i \in 1..Len(recs) : recs[i].filenamePattern # <<>>
     /\ DistinctPatterns(recs)

(* C4: the blob a successful pack writes, and the blob a successful merge  *)
(* writes over a target that satisfies the blob invariant, satisfies the   *)
(* blob invariant.                                                         *)
C4_BlobInvariant ==
  /\ (PackDone /\ run.status = "ok") => BlobInvariant(dest.flat)
  /\ (MergeDone /\ run.status = "ok" /\ BlobInvariant(FlatOf(run.before)))
       => BlobInvariant(dest.flat)

(* the incoming record at position i is the last one for its uuid, that    *)
(* uuid is in the target under another pattern with another suffix, and    *)
(* no record of the output other than it derives the old suffix            *)
ChangedPattern(i) ==
  LET L == run.langs[i]
      old == parse_languages_from_flat(FlatOf(run.before)).uuid_to_lang
      oldPattern == DictGet(old, L.uuid, L).filenamePattern
  IN /\ \A j \in (i + 1)..Len(run.langs) : run.langs[j].uuid # L.uuid
     /\ DictHas(old, L.uuid)
     /\ oldPattern # L.filenamePattern
     /\ pattern_to_key_suffix(oldPattern) # pattern_to_key_suffix(L.filenamePattern)
     /\ \A R \in Range(RecordsOf(dest.flat)) :
          R.uuid # L.uuid =>
            pattern_to_key_suffix(R.filenamePattern) # pattern_to_key_suffix(oldPattern)

(* C5: after a successful merge, for an incoming record that changes the   *)
(* pattern of a uuid of the target, the output blob has none of the nine   *)
(* content keys under the old suffix, has all nine under the new suffix    *)
(* with the incoming record's values, and maps file.patterns.<uuid> to the *)
(* new pattern.                                                            *)
C5_UpsertChangedPattern ==
  (MergeDone /\ run.status = "ok") =>
    \A i \in 1..Len(run.langs) :
      ChangedPattern(i) =>
        LET L == run.langs[i]
            own == build_flat_from_languages(<<L>>)
            oldPattern ==
              DictGet(parse_languages_from_flat(FlatOf(run.before)).uuid_to_lang,
                      L.uuid, L).filenamePattern
            S_old == pattern_to_key_suffix(oldPattern)
            S_new == pattern_to_key_suffix(L.filenamePattern)
        IN /\ \A n \in 1..Len(ContentPrefixes) :
                /\ ~DictHas(dest.flat, FlatKey(ContentPrefixes[n], S_old))
                /\ DictHas(dest.flat, FlatKey(ContentPrefixes[n], S_new))
                /\ DictGet(dest.flat, FlatKey(ContentPrefixes[n], S_new), <<>>)
                     = DictGet(own, FlatKey(ContentPrefixes[n], S_new), <<>>)
           /\ DictGet(dest.flat, FlatKey(K_FILE_PATTERNS, L.uuid), <<>>)
                = L.filenamePattern

(* C6: a merge into a missing destination fails with a conflict exactly    *)
(* when pack of the same records does, and when it succeeds it writes the  *)
(* mapping pack writes.                                                    *)
C6_MergeOnEmptyEqualsPack ==
  (MergeDone /\ ~run.before.exists) =>
    /\ (run.status = "conflict") <=> (PackCheck(run.langs, 1, <<>>) # <<>>)
    /\ run.status = "ok" =>
         DictItems(dest.flat) = DictItems(build_flat_from_languages(run.langs))

(* C8: after unpack into an empty directory the directory holds as many    *)
(* files as the count reported, one for each record of the blob.           *)
C8_UnpackDistinctFiles ==
  (pc = "done" /\ run.cmd = "unpack" /\ run.empty_out) =>
    /\ Len(outdir) = run.count
    /\ Cardinality(run.used) = run.count
    /\ \A R \in Range(DictValues(run.uuid_to_lang)) :
         R \in Range(DictValues(outdir))

(* C10: while merge runs, the pattern index maps a pattern to a uuid only  *)
(* if the record now stored for that uuid has that pattern; and when merge *)
(* stops on a conflict, the record it stopped on has a uuid that is not in *)
(* the record set while a record of the set with another uuid has its      *)
(* pattern, and the destination is untouched.                              *)
C10_MergeConflictExact ==
  /\ (run.cmd = "merge" /\ pc \in {"merge_loop", "done"}) =>
       \A n \in 1..Len(run.pattern_to_uuid) :
         /\ DictHas(run.uuid_to_lang, run.pattern_to_uuid[n].v)
         /\ DictGet(run.uuid_to_lang, run.pattern_to_uuid[n].v, <<>>).filenamePattern
              = run.pattern_to_uuid[n].k
  /\ (MergeDone /\ run.status = "conflict") =>
       LET L == run.langs[run.i]
       IN /\ ~DictHas(run.uuid_to_lang, L.uuid)
          /\ \E R \in Range(DictValues(run.uuid_to_lang)) :
               R.uuid # L.uuid /\ R.filenamePattern = L.filenamePattern
          /\ dest = run.before

====
